---- MODULE Spec2Model ----
(***************************************************************************)
(* Model of the HLE kernel archive layer (core/hle/kernel/archive.cpp):    *)
(* the archive registry g_archive_map, the kernel object pool holding      *)
(* Archive / File / Directory objects, the command buffer and the          *)
(* SyncRequest dispatchers of the three object types.                      *)
(***************************************************************************)
EXTENDS Integers, Sequences, FiniteSets, TLC

VARIABLES g_object_pool,  \* Handle -> kernel object (type "None" = free slot)
          g_archive_map,  \* IdCode -> Handle, a partial function
          cmd_buff,       \* the command buffer: word index -> 32-bit word
          last            \* the last call made: operation, arguments, result,
                          \* backend calls it made (observation only)

vars == <<g_object_pool, g_archive_map, cmd_buff, last>>

----------------------------------------------------------------------------
(* Bounds *)

MaxHandles == 2

Handles == 1..MaxHandles
\* 0 is never a live handle; it stands for any handle outside the pool
HandleArgs == 0..MaxHandles

IdCodes == {"SDMC", "RomFS"}
PathTypes == {"Binary", "Char"}

----------------------------------------------------------------------------
(* 32-bit words: two 16-bit limbs, low limb first *)

Limb == 2^16

U32(lo, hi) == <<lo, hi>>
Zero32 == U32(0, 0)
One32 == U32(1, 0)
Max32 == U32(Limb - 1, Limb - 1)

\* 64-bit values: four 16-bit limbs, low limb first
U64(a, b, c, d) == <<a, b, c, d>>
Zero64 == U64(0, 0, 0, 0)

RECURSIVE BitOr(_, _, _)
\* bitwise OR of two naturals below 2^n
BitOr(a, b, n) ==
    IF n = 0 THEN 0
    ELSE (IF a % 2 = 1 \/ b % 2 = 1 THEN 1 ELSE 0)
         + 2 * BitOr(a \div 2, b \div 2, n - 1)

\* (u64) w : zero extension of a 32-bit word
Widen(w) == U64(w[1], w[2], 0, 0)
\* x << 32 on 64 bits
Shl32(x) == U64(0, 0, x[1], x[2])
\* x >> 32 on 64 bits
Shr32(x) == U64(x[3], x[4], 0, 0)
\* (u32) x : truncation to the low 32 bits
Trunc32(x) == U32(x[1], x[2])
\* x | y on 64 bits
Or64(x, y) == [i \in 1..4 |-> BitOr(x[i], y[i], 16)]
\* variant: the high word shifted as a 32-bit value (the shift count wraps)
Join64_NoCast(low, high) ==
    Widen(U32(BitOr(low[1], high[1], 16), BitOr(low[2], high[2], 16)))

\* variant: the two words taken in the other order
Join64_Swapped(low, high) == Or64(Widen(high), Shl32(Widen(low)))

\* low | ((u64) high << 32)
Join64(low, high) == Or64(Widen(low), Shl32(Widen(high)))

----------------------------------------------------------------------------
(* Result codes (core/hle/result.h) *)

DescriptionCode(d) ==
    CASE d = "Success"        -> 0
      [] d = "NoData"         -> 1007
      [] d = "NotImplemented" -> 1012
      [] d = "InvalidHandle"  -> 1015
      [] d = "NotFound"       -> 1018

ModuleCode(m) ==
    CASE m = "Common" -> 0
      [] m = "Kernel" -> 1
      [] m = "FS"     -> 17

SummaryCode(s) ==
    CASE s = "Success"         -> 0
      [] s = "NothingHappened" -> 1
      [] s = "NotFound"        -> 4
      [] s = "NotSupported"    -> 6
      [] s = "InvalidArgument" -> 7
      [] s = "Canceled"        -> 9

LevelCode(l) ==
    CASE l = "Success"   -> 0
      [] l = "Status"    -> 25
      [] l = "Permanent" -> 27

ResultCode(description, module, summary, level) ==
    [description |-> description, module |-> module,
     summary |-> summary, level |-> level]

\* ResultCode::raw : description bits 0-9, module bits 10-17,
\* summary bits 21-26, level bits 27-31
Raw(rc) ==
    LET low == DescriptionCode(rc.description) + ModuleCode(rc.module) * 1024
    IN  U32(low % Limb,
            (low \div Limb) + SummaryCode(rc.summary) * 32
                            + LevelCode(rc.level) * 2048)

RESULT_SUCCESS == ResultCode("Success", "Common", "Success", "Success")

\* ResultCode::IsError : bit 31 of raw
IsError(rc) == Raw(rc)[2] >= 32768

UnimplementedFunction(module) ==
    ResultCode("NotImplemented", module, "NotSupported", "Permanent")

InvalidHandle(module) ==
    ResultCode("InvalidHandle", module, "InvalidArgument", "Permanent")

NotFoundFS == ResultCode("NotFound", "FS", "NotFound", "Permanent")
NoDataCanceled == ResultCode("NoData", "FS", "Canceled", "Status")
NoDataNothingHappened == ResultCode("NoData", "FS", "NothingHappened", "Status")

\* ResultVal<T>: a code and, on success, a value
MakeResult(v) == [code |-> RESULT_SUCCESS, val |-> v]
MakeError(rc) == [code |-> rc, val |-> 0]
Succeeded(rv) == ~IsError(rv.code)

----------------------------------------------------------------------------
(* Kernel object pool *)

NoObject == [type |-> "None", id_code |-> "None", backend |-> "Null"]
NewArchive(id_code) == [type |-> "Archive", id_code |-> id_code, backend |-> "Open"]
NewFile == [type |-> "File", id_code |-> "None", backend |-> "Null"]
NewDirectory == [type |-> "Directory", id_code |-> "None", backend |-> "Null"]

IsLive(pool, h) == h \in Handles /\ pool[h].type # "None"
LiveHandles(pool) == {h \in Handles : pool[h].type # "None"}
FreeHandles(pool) == Handles \ LiveHandles(pool)
HasFree(pool) == FreeHandles(pool) # {}

\* ObjectPool::Create : registers the object under a fresh handle
PoolCreate(pool, obj) ==
    LET h == CHOOSE f \in FreeHandles(pool) : \A g \in FreeHandles(pool) : f <= g
    IN  [pool |-> [pool EXCEPT ![h] = obj], handle |-> h]

\* ObjectPool::Get<T> / GetFast<T> : the object if live and of type T, else null
PoolGet(pool, h, type) == IF IsLive(pool, h) /\ pool[h].type = type THEN h ELSE 0

\* ObjectPool::Destroy<T> : releases the object and invalidates the handle
PoolDestroy(pool, h) == [pool EXCEPT ![h] = NoObject]

----------------------------------------------------------------------------
(* Archive registry *)

\* variant: a missing entry reported as success with a null handle
OpenArchive_NullHandle(map, id_code) ==
    IF id_code \notin DOMAIN map
    THEN MakeResult(0)
    ELSE MakeResult(map[id_code])

OpenArchive(map, id_code) ==
    IF id_code \notin DOMAIN map
    THEN MakeError(NotFoundFS)
    ELSE MakeResult(map[id_code])

\* variant: a missing entry reported with the error OpenArchive uses
CloseArchive_NotFound(map, id_code) ==
    IF id_code \notin DOMAIN map
    THEN [map |-> map, code |-> NotFoundFS]
    ELSE [map |-> map, code |-> RESULT_SUCCESS]

\* The registry is not modified by CloseArchive: it only looks the entry up.
CloseArchive(map, id_code) ==
    IF id_code \notin DOMAIN map
    THEN [map |-> map, code |-> InvalidHandle("FS")]
    ELSE [map |-> map, code |-> RESULT_SUCCESS]

MapPut(map, k, v) == [x \in DOMAIN map \cup {k} |-> IF x = k THEN v ELSE map[x]]

\* variant: the entry is overwritten without looking for an existing one
MountArchive_Overwrite(pool, map, archive) ==
    [map |-> MapPut(map, pool[archive].id_code, archive), code |-> RESULT_SUCCESS]

\* archive is the handle of the Archive object passed by pointer
MountArchive(pool, map, archive) ==
    LET id_code == pool[archive].id_code
        archive_handle == OpenArchive(map, id_code)
    IN  IF Succeeded(archive_handle)
        THEN [map |-> map, code |-> archive_handle.code]
        ELSE [map |-> MapPut(map, id_code, archive), code |-> RESULT_SUCCESS]

\* handle: the handle of the Archive object created (not returned to the caller)
CreateArchive(pool, map, id_code) ==
    LET created == PoolCreate(pool, NewArchive(id_code))
        result == MountArchive(created.pool, map, created.handle)
    IN  IF IsError(result.code)
        THEN [pool |-> created.pool, map |-> result.map, code |-> result.code,
              handle |-> created.handle]
        ELSE [pool |-> created.pool, map |-> result.map, code |-> RESULT_SUCCESS,
              handle |-> created.handle]

EmptyMap == [x \in {} |-> 0]

\* variant: the registry is not cleared before the built-in archive is mounted
ArchiveInit_NoClear(pool, map, initialized) ==
    IF initialized
    THEN LET r == CreateArchive(pool, map, "SDMC")
         IN  [pool |-> r.pool, map |-> r.map]
    ELSE [pool |-> pool, map |-> map]

\* initialized: the outcome of Archive_SDMC::Initialize()
ArchiveInit(pool, map, initialized) ==
    IF initialized
    THEN LET r == CreateArchive(pool, EmptyMap, "SDMC")
         IN  [pool |-> r.pool, map |-> r.map]
    ELSE [pool |-> pool, map |-> EmptyMap]

\* variant: the registry survives the shutdown
ArchiveShutdown_KeepsMap(pool, map) == [pool |-> pool, map |-> map]

ArchiveShutdown(pool, map) == [pool |-> pool, map |-> EmptyMap]

----------------------------------------------------------------------------
(* Path operations on an archive handle.  Each yields the new pool, the    *)
(* result and the backend calls it made.                                   *)

NoCall == <<>>
NoRet == [count |-> Zero32, size |-> Zero64]
\* a backend call on the archive h that returned the boolean ok
Call(fn, h, ok) ==
    [fn |-> fn, h |-> h, off |-> Zero64, len |-> Zero32, null |-> FALSE,
     ok |-> ok, ret |-> NoRet]

\* variant: a Binary path is opened through the backend like any other path
OpenFileFromArchive_BinaryOpensFile(pool, archive_handle, ptype, found) ==
    LET created == PoolCreate(pool, NewFile)
        handle == created.handle
        archive == PoolGet(created.pool, archive_handle, "Archive")
    IN  IF archive = 0
        THEN [pool |-> created.pool, res |-> MakeError(InvalidHandle("FS")),
              calls |-> NoCall]
        ELSE LET opened == [created.pool EXCEPT ![handle].backend =
                                IF found THEN "Open" ELSE "Null"]
             IN  [pool |-> opened,
                  res |-> IF ~found THEN MakeError(NotFoundFS)
                                    ELSE MakeResult(handle),
                  calls |-> <<Call("OpenFile", archive, found)>>]

\* found: whether the backend's OpenFile returned a file
OpenFileFromArchive(pool, archive_handle, ptype, found) ==
    IF ptype = "Binary"
    THEN [pool |-> pool, res |-> MakeResult(archive_handle), calls |-> NoCall]
    ELSE LET created == PoolCreate(pool, NewFile)
             handle == created.handle
             archive == PoolGet(created.pool, archive_handle, "Archive")
         IN  IF archive = 0
             THEN [pool |-> created.pool, res |-> MakeError(InvalidHandle("FS")),
                   calls |-> NoCall]
             ELSE LET opened == [created.pool EXCEPT ![handle].backend =
                                     IF found THEN "Open" ELSE "Null"]
                  IN  [pool |-> opened,
                       res |-> IF ~found THEN MakeError(NotFoundFS)
                                         ELSE MakeResult(handle),
                       calls |-> <<Call("OpenFile", archive, found)>>]

\* found: whether the backend's OpenDirectory returned a directory
OpenDirectoryFromArchive(pool, archive_handle, found) ==
    LET created == PoolCreate(pool, NewDirectory)
        handle == created.handle
        archive == PoolGet(created.pool, archive_handle, "Archive")
    IN  IF archive = 0
        THEN [pool |-> created.pool, res |-> MakeError(InvalidHandle("FS")),
              calls |-> NoCall]
        ELSE LET opened == [created.pool EXCEPT ![handle].backend =
                                IF found THEN "Open" ELSE "Null"]
             IN  [pool |-> opened,
                  res |-> IF ~found THEN MakeError(NotFoundFS)
                                    ELSE MakeResult(handle),
                  calls |-> <<Call("OpenDirectory", archive, found)>>]

\* variant: a failed delete reports the summary NothingHappened
DeleteFileFromArchive_NothingHappened(pool, archive_handle, ok) ==
    LET archive == PoolGet(pool, archive_handle, "Archive")
    IN  IF archive = 0
        THEN [pool |-> pool, res |-> MakeError(InvalidHandle("FS")), calls |-> NoCall]
        ELSE [pool |-> pool,
              res |-> IF ok THEN MakeError(RESULT_SUCCESS)
                            ELSE MakeError(NoDataNothingHappened),
              calls |-> <<Call("DeleteFile", archive, ok)>>]

\* ok: the boolean the backend call returned
DeleteFileFromArchive(pool, archive_handle, ok) ==
    LET archive == PoolGet(pool, archive_handle, "Archive")
    IN  IF archive = 0
        THEN [pool |-> pool, res |-> MakeError(InvalidHandle("FS")), calls |-> NoCall]
        ELSE [pool |-> pool,
              res |-> IF ok THEN MakeError(RESULT_SUCCESS) ELSE MakeError(NoDataCanceled),
              calls |-> <<Call("DeleteFile", archive, ok)>>]

DeleteDirectoryFromArchive(pool, archive_handle, ok) ==
    LET archive == PoolGet(pool, archive_handle, "Archive")
    IN  IF archive = 0
        THEN [pool |-> pool, res |-> MakeError(InvalidHandle("FS")), calls |-> NoCall]
        ELSE [pool |-> pool,
              res |-> IF ok THEN MakeError(RESULT_SUCCESS) ELSE MakeError(NoDataCanceled),
              calls |-> <<Call("DeleteDirectory", archive, ok)>>]

CreateDirectoryFromArchive(pool, archive_handle, ok) ==
    LET archive == PoolGet(pool, archive_handle, "Archive")
    IN  IF archive = 0
        THEN [pool |-> pool, res |-> MakeError(InvalidHandle("FS")), calls |-> NoCall]
        ELSE [pool |-> pool,
              res |-> IF ok THEN MakeError(RESULT_SUCCESS) ELSE MakeError(NoDataCanceled),
              calls |-> <<Call("CreateDirectory", archive, ok)>>]

\* variant: a rename across two archives is carried out by the source archive
RenameFileBetweenArchives_AcrossArchives(pool, src_archive_handle, dest_archive_handle, ok) ==
    LET src_archive == PoolGet(pool, src_archive_handle, "Archive")
        dest_archive == PoolGet(pool, dest_archive_handle, "Archive")
    IN  IF src_archive = 0 \/ dest_archive = 0
        THEN [pool |-> pool, res |-> MakeError(InvalidHandle("FS")), calls |-> NoCall]
        ELSE [pool |-> pool,
              res |-> IF ok THEN MakeError(RESULT_SUCCESS)
                            ELSE MakeError(NoDataNothingHappened),
              calls |-> <<Call("RenameFile", src_archive, ok)>>]

RenameFileBetweenArchives(pool, src_archive_handle, dest_archive_handle, ok) ==
    LET src_archive == PoolGet(pool, src_archive_handle, "Archive")
        dest_archive == PoolGet(pool, dest_archive_handle, "Archive")
    IN  IF src_archive = 0 \/ dest_archive = 0
        THEN [pool |-> pool, res |-> MakeError(InvalidHandle("FS")), calls |-> NoCall]
        ELSE IF src_archive = dest_archive
        THEN [pool |-> pool,
              res |-> IF ok THEN MakeError(RESULT_SUCCESS)
                            ELSE MakeError(NoDataNothingHappened),
              calls |-> <<Call("RenameFile", src_archive, ok)>>]
        ELSE [pool |-> pool, res |-> MakeError(UnimplementedFunction("FS")),
              calls |-> NoCall]

RenameDirectoryBetweenArchives(pool, src_archive_handle, dest_archive_handle, ok) ==
    LET src_archive == PoolGet(pool, src_archive_handle, "Archive")
        dest_archive == PoolGet(pool, dest_archive_handle, "Archive")
    IN  IF src_archive = 0 \/ dest_archive = 0
        THEN [pool |-> pool, res |-> MakeError(InvalidHandle("FS")), calls |-> NoCall]
        ELSE IF src_archive = dest_archive
        THEN [pool |-> pool,
              res |-> IF ok THEN MakeError(RESULT_SUCCESS)
                            ELSE MakeError(NoDataNothingHappened),
              calls |-> <<Call("RenameDirectory", src_archive, ok)>>]
        ELSE [pool |-> pool, res |-> MakeError(UnimplementedFunction("FS")),
              calls |-> NoCall]

----------------------------------------------------------------------------
(* Command buffer and SyncRequest dispatch *)

FileCommand_Read == U32(194, 2050)
FileCommand_Write == U32(258, 2051)
FileCommand_GetSize == U32(0, 2052)
FileCommand_SetSize == U32(128, 2053)
FileCommand_Close == U32(0, 2056)
FileCommand_Flush == U32(0, 2057)
DirectoryCommand_Read == U32(66, 2049)
DirectoryCommand_Close == U32(0, 2050)

BuffIndex == 0..6

\* a backend call with its decoded arguments; null: made through a null backend
CallArgs(pool, fn, h, off, len, ret) ==
    [fn |-> fn, h |-> h, off |-> off, len |-> len, null |-> pool[h].backend = "Null",
     ok |-> TRUE, ret |-> ret]

\* variant: Close destroys the Archive object the way File and Directory do
ArchiveSyncRequest_CloseDestroys(pool, map, buf, self, ret) ==
    LET cmd == buf[0]
        ok(b, calls) == [pool |-> pool, map |-> map, buf |-> [b EXCEPT ![1] = Zero32],
                         res |-> MakeResult(0), calls |-> calls]
    IN  CASE cmd = FileCommand_Read ->
                ok([buf EXCEPT ![2] = ret.count],
                   <<CallArgs(pool, "Read", self, Join64(buf[1], buf[2]), buf[3], ret)>>)
          [] cmd = FileCommand_Write ->
                ok([buf EXCEPT ![2] = ret.count],
                   <<CallArgs(pool, "Write", self, Join64(buf[1], buf[2]), buf[3], ret)>>)
          [] cmd = FileCommand_GetSize ->
                ok([buf EXCEPT ![2] = Trunc32(ret.size), ![3] = Trunc32(Shr32(ret.size))],
                   <<CallArgs(pool, "GetSize", self, Zero64, Zero32, ret)>>)
          [] cmd = FileCommand_SetSize ->
                ok(buf, <<CallArgs(pool, "SetSize", self, Join64(buf[1], buf[2]), Zero32, NoRet)>>)
          [] cmd = FileCommand_Close ->
                \* the ResultCode of CloseArchive is dropped
                [pool |-> PoolDestroy(pool, self),
                 map |-> CloseArchive(map, pool[self].id_code).map,
                 buf |-> [buf EXCEPT ![1] = Zero32],
                 res |-> MakeResult(0), calls |-> NoCall]
          [] OTHER ->
                [pool |-> pool, map |-> map, buf |-> buf,
                 res |-> MakeError(UnimplementedFunction("FS")), calls |-> NoCall]

\* ret: what the backend returns, ret.count for Read/Write, ret.size for GetSize
ArchiveSyncRequest(pool, map, buf, self, ret) ==
    LET cmd == buf[0]
        ok(b, calls) == [pool |-> pool, map |-> map, buf |-> [b EXCEPT ![1] = Zero32],
                         res |-> MakeResult(0), calls |-> calls]
    IN  CASE cmd = FileCommand_Read ->
                ok([buf EXCEPT ![2] = ret.count],
                   <<CallArgs(pool, "Read", self, Join64(buf[1], buf[2]), buf[3], ret)>>)
          [] cmd = FileCommand_Write ->
                ok([buf EXCEPT ![2] = ret.count],
                   <<CallArgs(pool, "Write", self, Join64(buf[1], buf[2]), buf[3], ret)>>)
          [] cmd = FileCommand_GetSize ->
                ok([buf EXCEPT ![2] = Trunc32(ret.size), ![3] = Trunc32(Shr32(ret.size))],
                   <<CallArgs(pool, "GetSize", self, Zero64, Zero32, ret)>>)
          [] cmd = FileCommand_SetSize ->
                ok(buf, <<CallArgs(pool, "SetSize", self, Join64(buf[1], buf[2]), Zero32, NoRet)>>)
          [] cmd = FileCommand_Close ->
                \* the ResultCode of CloseArchive is dropped
                [pool |-> pool, map |-> CloseArchive(map, pool[self].id_code).map,
                 buf |-> [buf EXCEPT ![1] = Zero32],
                 res |-> MakeResult(0), calls |-> NoCall]
          [] OTHER ->
                [pool |-> pool, map |-> map, buf |-> buf,
                 res |-> MakeError(UnimplementedFunction("FS")), calls |-> NoCall]

\* destroying a File or Directory releases the backend it owns, if any
Release(pool, self) ==
    IF pool[self].backend = "Open" THEN <<CallArgs(pool, "Release", self, Zero64, Zero32, NoRet)>>
    ELSE NoCall

\* variant: Close answers success and leaves the File object in the pool
FileSyncRequest_CloseKeepsObject(pool, map, buf, self, ret) ==
    LET cmd == buf[0]
        ok(b, calls) == [pool |-> pool, map |-> map, buf |-> [b EXCEPT ![1] = Zero32],
                         res |-> MakeResult(0), calls |-> calls]
    IN  CASE cmd = FileCommand_Read ->
                ok([buf EXCEPT ![2] = ret.count],
                   <<CallArgs(pool, "Read", self, Join64(buf[1], buf[2]), buf[3], ret)>>)
          [] cmd = FileCommand_Write ->
                ok([buf EXCEPT ![2] = ret.count],
                   <<CallArgs(pool, "Write", self, Join64(buf[1], buf[2]), buf[3], ret)>>)
          [] cmd = FileCommand_GetSize ->
                ok([buf EXCEPT ![2] = Trunc32(ret.size), ![3] = Trunc32(Shr32(ret.size))],
                   <<CallArgs(pool, "GetSize", self, Zero64, Zero32, ret)>>)
          [] cmd = FileCommand_SetSize ->
                ok(buf, <<CallArgs(pool, "SetSize", self, Join64(buf[1], buf[2]), Zero32, NoRet)>>)
          [] cmd = FileCommand_Close ->
                ok(buf, NoCall)
          [] OTHER ->
                LET error == UnimplementedFunction("FS")
                IN  [pool |-> pool, map |-> map, buf |-> [buf EXCEPT ![1] = Raw(error)],
                     res |-> MakeError(error), calls |-> NoCall]

\* variant: the SetSize case has no break and runs on into Close
FileSyncRequest_SetSizeFallsThrough(pool, map, buf, self, ret) ==
    LET cmd == buf[0]
        ok(b, calls) == [pool |-> pool, map |-> map, buf |-> [b EXCEPT ![1] = Zero32],
                         res |-> MakeResult(0), calls |-> calls]
    IN  CASE cmd = FileCommand_Read ->
                ok([buf EXCEPT ![2] = ret.count],
                   <<CallArgs(pool, "Read", self, Join64(buf[1], buf[2]), buf[3], ret)>>)
          [] cmd = FileCommand_Write ->
                ok([buf EXCEPT ![2] = ret.count],
                   <<CallArgs(pool, "Write", self, Join64(buf[1], buf[2]), buf[3], ret)>>)
          [] cmd = FileCommand_GetSize ->
                ok([buf EXCEPT ![2] = Trunc32(ret.size), ![3] = Trunc32(Shr32(ret.size))],
                   <<CallArgs(pool, "GetSize", self, Zero64, Zero32, ret)>>)
          [] cmd = FileCommand_SetSize ->
                [pool |-> PoolDestroy(pool, self), map |-> map,
                 buf |-> [buf EXCEPT ![1] = Zero32],
                 res |-> MakeResult(0),
                 calls |-> <<CallArgs(pool, "SetSize", self, Join64(buf[1], buf[2]),
                                      Zero32, NoRet)>> \o Release(pool, self)]
          [] cmd = FileCommand_Close ->
                [pool |-> PoolDestroy(pool, self), map |-> map,
                 buf |-> [buf EXCEPT ![1] = Zero32],
                 res |-> MakeResult(0), calls |-> Release(pool, self)]
          [] OTHER ->
                LET error == UnimplementedFunction("FS")
                IN  [pool |-> pool, map |-> map, buf |-> [buf EXCEPT ![1] = Raw(error)],
                     res |-> MakeError(error), calls |-> NoCall]

FileSyncRequest(pool, map, buf, self, ret) ==
    LET cmd == buf[0]
        ok(b, calls) == [pool |-> pool, map |-> map, buf |-> [b EXCEPT ![1] = Zero32],
                         res |-> MakeResult(0), calls |-> calls]
    IN  CASE cmd = FileCommand_Read ->
                ok([buf EXCEPT ![2] = ret.count],
                   <<CallArgs(pool, "Read", self, Join64(buf[1], buf[2]), buf[3], ret)>>)
          [] cmd = FileCommand_Write ->
                ok([buf EXCEPT ![2] = ret.count],
                   <<CallArgs(pool, "Write", self, Join64(buf[1], buf[2]), buf[3], ret)>>)
          [] cmd = FileCommand_GetSize ->
                ok([buf EXCEPT ![2] = Trunc32(ret.size), ![3] = Trunc32(Shr32(ret.size))],
                   <<CallArgs(pool, "GetSize", self, Zero64, Zero32, ret)>>)
          [] cmd = FileCommand_SetSize ->
                ok(buf, <<CallArgs(pool, "SetSize", self, Join64(buf[1], buf[2]), Zero32, NoRet)>>)
          [] cmd = FileCommand_Close ->
                [pool |-> PoolDestroy(pool, self), map |-> map,
                 buf |-> [buf EXCEPT ![1] = Zero32],
                 res |-> MakeResult(0), calls |-> Release(pool, self)]
          [] OTHER ->
                LET error == UnimplementedFunction("FS")
                IN  [pool |-> pool, map |-> map, buf |-> [buf EXCEPT ![1] = Raw(error)],
                     res |-> MakeError(error), calls |-> NoCall]

\* variant: the error of an unknown command is also stored in word 2
DirectorySyncRequest_ErrorInWord2(pool, map, buf, self, ret) ==
    LET cmd == buf[0]
    IN  CASE cmd = DirectoryCommand_Read ->
                [pool |-> pool, map |-> map,
                 buf |-> [buf EXCEPT ![2] = ret.count, ![1] = Zero32],
                 res |-> MakeResult(0),
                 calls |-> <<CallArgs(pool, "Read", self, Zero64, buf[1], ret)>>]
          [] cmd = DirectoryCommand_Close ->
                [pool |-> PoolDestroy(pool, self), map |-> map,
                 buf |-> [buf EXCEPT ![1] = Zero32],
                 res |-> MakeResult(0), calls |-> Release(pool, self)]
          [] OTHER ->
                LET error == UnimplementedFunction("FS")
                IN  [pool |-> pool, map |-> map,
                     buf |-> [buf EXCEPT ![1] = Raw(error), ![2] = Raw(error)],
                     res |-> MakeError(error), calls |-> NoCall]

DirectorySyncRequest(pool, map, buf, self, ret) ==
    LET cmd == buf[0]
    IN  CASE cmd = DirectoryCommand_Read ->
                [pool |-> pool, map |-> map,
                 buf |-> [buf EXCEPT ![2] = ret.count, ![1] = Zero32],
                 res |-> MakeResult(0),
                 calls |-> <<CallArgs(pool, "Read", self, Zero64, buf[1], ret)>>]
          [] cmd = DirectoryCommand_Close ->
                [pool |-> PoolDestroy(pool, self), map |-> map,
                 buf |-> [buf EXCEPT ![1] = Zero32],
                 res |-> MakeResult(0), calls |-> Release(pool, self)]
          [] OTHER ->
                LET error == UnimplementedFunction("FS")
                IN  [pool |-> pool, map |-> map, buf |-> [buf EXCEPT ![1] = Raw(error)],
                     res |-> MakeError(error), calls |-> NoCall]

\* the commands whose handling calls through the object's backend pointer
DereferencesBackend(type, cmd) ==
    IF type = "Directory"
    THEN cmd = DirectoryCommand_Read
    ELSE cmd \in {FileCommand_Read, FileCommand_Write, FileCommand_GetSize,
                  FileCommand_SetSize}

\* A File or Directory whose open failed stays in the pool with a null backend;
\* a call through it is undefined: the process dies, or the call comes back
\* with whatever value.
Outcomes(pool, buf, handle) ==
    IF /\ IsLive(pool, handle)
       /\ pool[handle].backend = "Null"
       /\ DereferencesBackend(pool[handle].type, buf[0])
    THEN {"return", "crash"}
    ELSE {"return"}

\* The dispatcher: resolves the handle in the object pool and runs the object's
\* SyncRequest; a handle that is not live yields InvalidHandle.
SendSyncRequest(pool, map, buf, handle, ret) ==
    IF ~IsLive(pool, handle)
    THEN [pool |-> pool, map |-> map, buf |-> buf,
          res |-> MakeError(InvalidHandle("Kernel")), calls |-> NoCall]
    ELSE CASE pool[handle].type = "Archive" -> ArchiveSyncRequest(pool, map, buf, handle, ret)
           [] pool[handle].type = "File" -> FileSyncRequest(pool, map, buf, handle, ret)
           [] pool[handle].type = "Directory" ->
                DirectorySyncRequest(pool, map, buf, handle, ret)

----------------------------------------------------------------------------
(* The state machine *)

ZeroBuff == [i \in BuffIndex |-> Zero32]

\* the record of a call: the operation, its handle and id_code arguments (for
\* CreateArchive h is the handle of the object it created), the path type, the
\* result and the backend calls made.  again: the call is a dispatch to the
\* handle that the call just before it destroyed.
Called(op, h, h2, id, path, res, calls) ==
    [op |-> op, h |-> h, h2 |-> h2, id |-> id, path |-> path, res |-> res,
     calls |-> calls,
     again |-> /\ op = "SendSyncRequest"
               /\ last.op = "SendSyncRequest"
               /\ last.h = h
               /\ Succeeded(last.res)
               /\ ~IsLive(g_object_pool, h)]

\* the process runs until a call dereferences a null backend and takes it down
Running == last.op # "Crash"

Init ==
    /\ g_object_pool = [h \in Handles |-> NoObject]
    /\ g_archive_map = EmptyMap
    /\ cmd_buff = ZeroBuff
    /\ last = Called("Boot", 0, 0, "None", "None", MakeResult(0), NoCall)

DoArchiveInit(initialized) ==
    /\ Running
    /\ initialized => HasFree(g_object_pool)
    /\ LET r == ArchiveInit(g_object_pool, g_archive_map, initialized)
       IN  /\ g_object_pool' = r.pool
           /\ g_archive_map' = r.map
    /\ last' = Called("ArchiveInit", 0, 0, "SDMC", "None",
                      MakeResult(IF initialized THEN 1 ELSE 0), NoCall)
    /\ UNCHANGED cmd_buff

DoArchiveShutdown ==
    /\ Running
    /\ LET r == ArchiveShutdown(g_object_pool, g_archive_map)
       IN  /\ g_object_pool' = r.pool
           /\ g_archive_map' = r.map
    /\ last' = Called("ArchiveShutdown", 0, 0, "None", "None", MakeResult(0), NoCall)
    /\ UNCHANGED cmd_buff

DoCreateArchive(id_code) ==
    /\ Running
    /\ HasFree(g_object_pool)
    /\ LET r == CreateArchive(g_object_pool, g_archive_map, id_code)
       IN  /\ g_object_pool' = r.pool
           /\ g_archive_map' = r.map
           /\ last' = Called("CreateArchive", r.handle, 0, id_code, "None",
                             MakeError(r.code), NoCall)
    /\ UNCHANGED cmd_buff

DoMountArchive(archive) ==
    /\ Running
    /\ IsLive(g_object_pool, archive)
    /\ g_object_pool[archive].type = "Archive"
    /\ LET r == MountArchive(g_object_pool, g_archive_map, archive)
       IN  /\ g_archive_map' = r.map
           /\ last' = Called("MountArchive", archive, 0,
                             g_object_pool[archive].id_code, "None",
                             MakeError(r.code), NoCall)
    /\ UNCHANGED <<g_object_pool, cmd_buff>>

DoOpenArchive(id_code) ==
    /\ Running
    /\ last' = Called("OpenArchive", 0, 0, id_code, "None",
                      OpenArchive(g_archive_map, id_code), NoCall)
    /\ UNCHANGED <<g_object_pool, g_archive_map, cmd_buff>>

DoCloseArchive(id_code) ==
    /\ Running
    /\ LET r == CloseArchive(g_archive_map, id_code)
       IN  /\ g_archive_map' = r.map
           /\ last' = Called("CloseArchive", 0, 0, id_code, "None",
                             MakeError(r.code), NoCall)
    /\ UNCHANGED <<g_object_pool, cmd_buff>>

DoOpenFileFromArchive(archive_handle, ptype, found) ==
    /\ Running
    /\ ptype # "Binary" => HasFree(g_object_pool)
    /\ LET r == OpenFileFromArchive(g_object_pool, archive_handle, ptype, found)
       IN  /\ g_object_pool' = r.pool
           /\ last' = Called("OpenFileFromArchive", archive_handle, 0, "None", ptype,
                             r.res, r.calls)
    /\ UNCHANGED <<g_archive_map, cmd_buff>>

DoOpenDirectoryFromArchive(archive_handle, found) ==
    /\ Running
    /\ HasFree(g_object_pool)
    /\ LET r == OpenDirectoryFromArchive(g_object_pool, archive_handle, found)
       IN  /\ g_object_pool' = r.pool
           /\ last' = Called("OpenDirectoryFromArchive", archive_handle, 0, "None",
                             "Char", r.res, r.calls)
    /\ UNCHANGED <<g_archive_map, cmd_buff>>

DoDeleteFileFromArchive(archive_handle, ok) ==
    /\ Running
    /\ LET r == DeleteFileFromArchive(g_object_pool, archive_handle, ok)
       IN  /\ g_object_pool' = r.pool
           /\ last' = Called("DeleteFileFromArchive", archive_handle, 0, "None",
                             "Char", r.res, r.calls)
    /\ UNCHANGED <<g_archive_map, cmd_buff>>

DoDeleteDirectoryFromArchive(archive_handle, ok) ==
    /\ Running
    /\ LET r == DeleteDirectoryFromArchive(g_object_pool, archive_handle, ok)
       IN  /\ g_object_pool' = r.pool
           /\ last' = Called("DeleteDirectoryFromArchive", archive_handle, 0, "None",
                             "Char", r.res, r.calls)
    /\ UNCHANGED <<g_archive_map, cmd_buff>>

DoCreateDirectoryFromArchive(archive_handle, ok) ==
    /\ Running
    /\ LET r == CreateDirectoryFromArchive(g_object_pool, archive_handle, ok)
       IN  /\ g_object_pool' = r.pool
           /\ last' = Called("CreateDirectoryFromArchive", archive_handle, 0, "None",
                             "Char", r.res, r.calls)
    /\ UNCHANGED <<g_archive_map, cmd_buff>>

DoRenameFileBetweenArchives(src_archive_handle, dest_archive_handle, ok) ==
    /\ Running
    /\ LET r == RenameFileBetweenArchives(g_object_pool, src_archive_handle,
                                          dest_archive_handle, ok)
       IN  /\ g_object_pool' = r.pool
           /\ last' = Called("RenameFileBetweenArchives", src_archive_handle,
                             dest_archive_handle, "None", "Char", r.res, r.calls)
    /\ UNCHANGED <<g_archive_map, cmd_buff>>

DoRenameDirectoryBetweenArchives(src_archive_handle, dest_archive_handle, ok) ==
    /\ Running
    /\ LET r == RenameDirectoryBetweenArchives(g_object_pool, src_archive_handle,
                                               dest_archive_handle, ok)
       IN  /\ g_object_pool' = r.pool
           /\ last' = Called("RenameDirectoryBetweenArchives", src_archive_handle,
                             dest_archive_handle, "None", "Char", r.res, r.calls)
    /\ UNCHANGED <<g_archive_map, cmd_buff>>

\* the commands the guest issues and the argument words it writes
Commands ==
    {FileCommand_Read, FileCommand_Write, FileCommand_GetSize, FileCommand_SetSize,
     FileCommand_Close, FileCommand_Flush, DirectoryCommand_Read, DirectoryCommand_Close}
LifecycleCommands == {FileCommand_Close, DirectoryCommand_Close}
ArgWords == {Zero32, One32}

GuestBuffer(cmd, w1, w2) ==
    [i \in BuffIndex |->
        CASE i = 0 -> cmd [] i = 1 -> w1 [] i = 2 -> w2 [] i = 3 -> U32(4, 0)
          [] OTHER -> Zero32]

\* what a backend may return for a command
Rets(cmd) ==
    CASE cmd \in {FileCommand_Read, FileCommand_Write, DirectoryCommand_Read} ->
            {[count |-> c, size |-> Zero64] : c \in {Zero32, U32(3, 0)}}
      [] cmd = FileCommand_GetSize ->
            {[count |-> Zero32, size |-> z] :
                z \in {Zero64, U64(2, 0, 1, 0), U64(Limb - 1, Limb - 1, Limb - 1, Limb - 1)}}
      [] OTHER -> {NoRet}

\* the guest fills the command buffer
GuestWriteCommand(cmds, words2) ==
    \E cmd \in cmds, w1 \in ArgWords, w2 \in words2 :
        /\ Running
        /\ cmd_buff' = GuestBuffer(cmd, w1, w2)
        /\ last' = Called("GuestWriteCommand", 0, 0, "None", "None", MakeResult(0), NoCall)
        /\ UNCHANGED <<g_object_pool, g_archive_map>>

DoSendSyncRequest(handle) ==
    \E ret \in Rets(cmd_buff[0]), outcome \in Outcomes(g_object_pool, cmd_buff, handle) :
        LET r == SendSyncRequest(g_object_pool, g_archive_map, cmd_buff, handle, ret)
        IN  /\ Running
            /\ IF outcome = "crash"
               THEN /\ UNCHANGED <<g_object_pool, g_archive_map, cmd_buff>>
                    /\ last' = Called("Crash", handle, 0, "None", "None",
                                      MakeResult(0), NoCall)
               ELSE /\ g_object_pool' = r.pool
                    /\ g_archive_map' = r.map
                    /\ cmd_buff' = r.buf
                    /\ last' = Called("SendSyncRequest", handle, 0, "None", "None",
                                      r.res, r.calls)

Booleans == {TRUE, FALSE}

Lifecycle ==
    \/ \E b \in Booleans : DoArchiveInit(b)
    \/ DoArchiveShutdown
    \/ \E id \in IdCodes : DoCreateArchive(id)
    \/ \E h \in Handles : DoMountArchive(h)
    \/ \E id \in IdCodes : DoCloseArchive(id)
    \/ \E h \in HandleArgs, t \in PathTypes, b \in Booleans : DoOpenFileFromArchive(h, t, b)
    \/ \E h \in HandleArgs, b \in Booleans : DoOpenDirectoryFromArchive(h, b)

Lookups ==
    \/ \E id \in IdCodes : DoOpenArchive(id)
    \/ \E h \in HandleArgs, b \in Booleans : DoDeleteFileFromArchive(h, b)
    \/ \E h \in HandleArgs, b \in Booleans : DoDeleteDirectoryFromArchive(h, b)
    \/ \E h \in HandleArgs, b \in Booleans : DoCreateDirectoryFromArchive(h, b)
    \/ \E h1 \in HandleArgs, h2 \in HandleArgs, b \in Booleans :
            DoRenameFileBetweenArchives(h1, h2, b)
    \/ \E h1 \in HandleArgs, h2 \in HandleArgs, b \in Booleans :
            DoRenameDirectoryBetweenArchives(h1, h2, b)

Next ==
    \/ Lifecycle
    \/ Lookups
    \/ GuestWriteCommand(LifecycleCommands, {Zero32})
    \/ \E h \in HandleArgs : DoSendSyncRequest(h)

Spec == Init /\ [][Next]_vars

\* The command codec: every command and argument word, on the objects that
\* ArchiveInit and the opens put in the pool
NextIPC ==
    \/ \E b \in Booleans : DoArchiveInit(b)
    \/ \E h \in HandleArgs, b \in Booleans : DoOpenFileFromArchive(h, "Char", b)
    \/ \E h \in HandleArgs, b \in Booleans : DoOpenDirectoryFromArchive(h, b)
    \/ GuestWriteCommand(Commands, ArgWords)
    \/ \E h \in HandleArgs : DoSendSyncRequest(h)

SpecIPC == Init /\ [][NextIPC]_vars

\* Every operation together with every command, for what an operation leaves
\* alone.
NextFrame ==
    \/ Lifecycle
    \/ Lookups
    \/ GuestWriteCommand(Commands, {Zero32})
    \/ \E h \in HandleArgs : DoSendSyncRequest(h)

SpecFrame == Init /\ [][NextFrame]_vars

\* The size codec on its own: the words GetSize writes for a backend size
\* are sent back as the argument of SetSize.
\* sizes around the word boundaries: 0, 1, 2^32 - 1, 2^32, 2^32 + 1, 2^63,
\* one with four different limbs, 2^64 - 1
Sizes64 ==
    {Zero64, U64(1, 0, 0, 0), U64(Limb - 1, Limb - 1, 0, 0), U64(0, 0, 1, 0),
     U64(1, 0, 1, 0), U64(0, 0, 0, Limb \div 2), U64(1, 2, 3, 4),
     U64(Limb - 1, Limb - 1, Limb - 1, Limb - 1)}

DoSizeRoundTrip(handle, size) ==
    /\ Running
    /\ IsLive(g_object_pool, handle)
    /\ g_object_pool[handle].type \in {"Archive", "File"}
    /\ g_object_pool[handle].backend = "Open"
    /\ LET get == SendSyncRequest(g_object_pool, g_archive_map,
                                  GuestBuffer(FileCommand_GetSize, Zero32, Zero32),
                                  handle, [count |-> Zero32, size |-> size])
           set == SendSyncRequest(get.pool, get.map,
                                  GuestBuffer(FileCommand_SetSize, get.buf[2], get.buf[3]),
                                  handle, NoRet)
       IN  /\ g_object_pool' = set.pool
           /\ g_archive_map' = set.map
           /\ cmd_buff' = set.buf
           /\ last' = Called("SizeRoundTrip", handle, 0, "None", "None", set.res,
                             get.calls \o set.calls)

NextCodec ==
    \/ \E b \in Booleans : DoArchiveInit(b)
    \/ \E h \in HandleArgs, b \in Booleans : DoOpenFileFromArchive(h, "Char", b)
    \/ \E h \in Handles, size \in Sizes64 : DoSizeRoundTrip(h, size)

SpecCodec == Init /\ [][NextCodec]_vars

----------------------------------------------------------------------------
(* Properties *)

Mounted(id) == id \in DOMAIN g_archive_map
LiveArchive(pool, h) == IsLive(pool, h) /\ pool[h].type = "Archive"
IsCode(rv, description) == rv.code.description = description
MountOps == {"MountArchive", "CreateArchive"}

\* C1: after CloseArchive(id_code) returns success the registry has no entry
\* for id_code, so that the next OpenArchive(id_code) returns NotFound.
C1_CloseRemovesMapping ==
    [][(last'.op = "CloseArchive" /\ Succeeded(last'.res))
        => /\ last'.id \notin DOMAIN g_archive_map'
           /\ IsCode(OpenArchive(g_archive_map', last'.id), "NotFound")]_vars

\* C2: mounting an archive while one with the same id_code is already mounted
\* leaves the registry unchanged, the entry still holding the first handle.
C2_DuplicateMountKeepsFirst ==
    [][(last'.op \in MountOps /\ Mounted(last'.id)
            /\ g_archive_map[last'.id] # last'.h)
        => /\ g_archive_map' = g_archive_map
           /\ g_archive_map'[last'.id] # last'.h]_vars

\* C2 witness: a mount of a second archive was attempted and the entry is the
\* handle of the first one.
C2_Witness ==
    /\ last.op \in MountOps
    /\ Mounted(last.id)
    /\ g_archive_map[last.id] # last.h
    /\ LiveArchive(g_object_pool, g_archive_map[last.id])

\* C3: MountArchive and CreateArchive return an error whenever the registry
\* already has an entry for the archive's id_code.
C3_DuplicateMountFails ==
    [][(last'.op \in MountOps /\ Mounted(last'.id)) => IsError(last'.res.code)]_vars

ArchivesOf(pool, id) ==
    {h \in Handles : pool[h].type = "Archive" /\ pool[h].id_code = id}

\* C4: the object pool holds at most one live Archive object per id_code.
C4_OneArchivePerIdCode ==
    \A id \in IdCodes : Cardinality(ArchivesOf(g_object_pool, id)) <= 1

\* C5: OpenArchive returns success with exactly the stored handle when the
\* registry has an entry for id_code, and NotFound (module FS, summary
\* NotFound) when it has none.
C5_OpenArchiveResult ==
    last.op = "OpenArchive"
        => IF Mounted(last.id)
           THEN last.res = MakeResult(g_archive_map[last.id])
           ELSE /\ IsError(last.res.code)
                /\ last.res.code.description = "NotFound"
                /\ last.res.code.module = "FS"
                /\ last.res.code.summary = "NotFound"

\* C5 witness: with an archive under SDMC and nothing under RomFS, Open(SDMC)
\* returned the archive's handle.
C5_Witness ==
    /\ last.op = "OpenArchive"
    /\ last.id = "SDMC"
    /\ Mounted("SDMC")
    /\ ~Mounted("RomFS")
    /\ last.res.val = g_archive_map["SDMC"]
    /\ LiveArchive(g_object_pool, last.res.val)

\* C6: CloseArchive on an id_code with no registry entry returns InvalidHandle
\* (module FS), not the NotFound that OpenArchive returns for the same
\* id_code, and leaves the registry unchanged.
C6_CloseUnmounted ==
    [][(last'.op = "CloseArchive" /\ ~Mounted(last'.id))
        => /\ last'.res.code = InvalidHandle("FS")
           /\ OpenArchive(g_archive_map, last'.id).code = NotFoundFS
           /\ last'.res.code # OpenArchive(g_archive_map, last'.id).code
           /\ g_archive_map' = g_archive_map]_vars

\* C6 witness: CloseArchive was called on an id_code that is not mounted.
C6_Witness ==
    /\ last.op = "CloseArchive"
    /\ ~Mounted(last.id)
    /\ IsCode(last.res, "InvalidHandle")

ArchiveHandleOps ==
    {"OpenFileFromArchive", "OpenDirectoryFromArchive", "DeleteFileFromArchive",
     "DeleteDirectoryFromArchive", "CreateDirectoryFromArchive"}
RenameOps == {"RenameFileBetweenArchives", "RenameDirectoryBetweenArchives"}

\* C7: every operation taking an archive handle, given a handle that is not a
\* live Archive (for the renames: either argument), returns InvalidHandle and
\* invokes no backend operation.
C7_InvalidArchiveHandle ==
    [][(\/ /\ last'.op \in ArchiveHandleOps
           /\ ~LiveArchive(g_object_pool, last'.h)
        \/ /\ last'.op \in RenameOps
           /\ \/ ~LiveArchive(g_object_pool, last'.h)
              \/ ~LiveArchive(g_object_pool, last'.h2))
        => /\ IsCode(last'.res, "InvalidHandle")
           /\ last'.calls = NoCall]_vars

OpenOps == {"OpenFileFromArchive", "OpenDirectoryFromArchive"}

\* C8: an open that returns NotFound or InvalidHandle leaves the set of live
\* objects of the pool as it was before the call.
C8_FailedOpenRegistersNothing ==
    [][(/\ last'.op \in OpenOps
        /\ \/ IsCode(last'.res, "NotFound")
           \/ IsCode(last'.res, "InvalidHandle"))
        => LiveHandles(g_object_pool') = LiveHandles(g_object_pool)]_vars

\* the commands each object type's SyncRequest handles
RecognizedCommands(type) ==
    IF type = "Directory"
    THEN {DirectoryCommand_Read, DirectoryCommand_Close}
    ELSE {FileCommand_Read, FileCommand_Write, FileCommand_GetSize,
          FileCommand_SetSize, FileCommand_Close}

CloseCommand(type) ==
    IF type = "Directory" THEN DirectoryCommand_Close ELSE FileCommand_Close

\* a Close command is being dispatched to the live File or Directory h
ClosesObject(pool, buf, h) ==
    /\ IsLive(pool, h)
    /\ pool[h].type \in {"File", "Directory"}
    /\ buf[0] = CloseCommand(pool[h].type)

\* C9: a Close dispatched to a live File/Directory handle leaves the handle
\* not live and releases the backend it owns once; a dispatch to the same
\* handle right after it yields InvalidHandle, releases nothing and leaves
\* the pool as it is.
C9_DestroyedOnce ==
    [][last'.op = "SendSyncRequest"
        => /\ ClosesObject(g_object_pool, cmd_buff, last'.h)
                => /\ Succeeded(last'.res)
                   /\ ~IsLive(g_object_pool', last'.h)
                   /\ IF g_object_pool[last'.h].backend = "Open"
                      THEN /\ Len(last'.calls) = 1
                           /\ last'.calls[1].fn = "Release"
                           /\ last'.calls[1].h = last'.h
                      ELSE last'.calls = NoCall
           /\ last'.again
                => /\ IsCode(last'.res, "InvalidHandle")
                   /\ last'.calls = NoCall
                   /\ g_object_pool' = g_object_pool]_vars

\* C9 witness: Close was dispatched a second time to a handle that the
\* dispatch before it destroyed.
C9_Witness ==
    /\ last.op = "SendSyncRequest"
    /\ last.again
    /\ cmd_buff[0] \in {FileCommand_Close, DirectoryCommand_Close}
    /\ IsCode(last.res, "InvalidHandle")
    /\ ~IsLive(g_object_pool, last.h)

\* C10: for each object type and every command outside the set recognized
\* for the type, SyncRequest returns UnimplementedFunction (module FS) and
\* leaves word 1 of the command buffer non-zero, holding the error's raw code.
C10_UnknownCommandStatus ==
    [][(/\ last'.op = "SendSyncRequest"
        /\ IsLive(g_object_pool, last'.h)
        /\ cmd_buff[0] \notin RecognizedCommands(g_object_pool[last'.h].type))
        => /\ last'.res.code = UnimplementedFunction("FS")
           /\ cmd_buff'[1] # Zero32
           /\ cmd_buff'[1] = Raw(last'.res.code)]_vars

\* C11: a dispatch that returns an error leaves every command-buffer word
\* except word 1 as it was before the call and invokes no backend operation.
C11_ErrorWritesStatusOnly ==
    [][(last'.op = "SendSyncRequest" /\ IsError(last'.res.code))
        => /\ \A i \in BuffIndex \ {1} : cmd_buff'[i] = cmd_buff[i]
           /\ last'.calls = NoCall]_vars

\* C11 witness: a Directory answered an unknown command with the error in
\* word 1 while word 2 holds a value.
C11_Witness ==
    /\ last.op = "SendSyncRequest"
    /\ IsError(last.res.code)
    /\ IsLive(g_object_pool, last.h)
    /\ g_object_pool[last.h].type = "Directory"
    /\ cmd_buff[1] = Raw(UnimplementedFunction("FS"))
    /\ cmd_buff[2] # Zero32

\* the 64-bit value whose low word is low and whose high word is high
Words64(low, high) == <<low[1], low[2], high[1], high[2]>>

\* one backend call fn on object h
OneCall(calls, fn, h) == Len(calls) = 1 /\ calls[1].fn = fn /\ calls[1].h = h

\* the reply a successful dispatch of the command in buf to the object of
\* type type must leave, given the backend calls made
ReplyLayout(type, h, buf, reply, calls) ==
    LET cmd == buf[0]
    IN  CASE type # "Directory" /\ cmd \in {FileCommand_Read, FileCommand_Write} ->
                /\ OneCall(calls, IF cmd = FileCommand_Read THEN "Read" ELSE "Write", h)
                /\ calls[1].off = Words64(buf[1], buf[2])
                /\ calls[1].len = buf[3]
                /\ reply = [buf EXCEPT ![1] = Zero32, ![2] = calls[1].ret.count]
          [] type # "Directory" /\ cmd = FileCommand_GetSize ->
                /\ OneCall(calls, "GetSize", h)
                /\ reply = [buf EXCEPT ![1] = Zero32,
                                       ![2] = <<calls[1].ret.size[1], calls[1].ret.size[2]>>,
                                       ![3] = <<calls[1].ret.size[3], calls[1].ret.size[4]>>]
          [] type # "Directory" /\ cmd = FileCommand_SetSize ->
                /\ OneCall(calls, "SetSize", h)
                /\ calls[1].off = Words64(buf[1], buf[2])
                /\ reply = [buf EXCEPT ![1] = Zero32]
          [] type = "Directory" /\ cmd = DirectoryCommand_Read ->
                /\ OneCall(calls, "Read", h)
                /\ calls[1].len = buf[1]
                /\ reply = [buf EXCEPT ![1] = Zero32, ![2] = calls[1].ret.count]
          [] OTHER -> TRUE

\* C12: the reply of a successful dispatch: Read/Write on an Archive or File
\* pass offset = words 1 (low) and 2 (high) and length = word 3 to one backend
\* call and leave word 1 = 0, word 2 = the count returned; GetSize leaves
\* word 1 = 0, word 2 = low and word 3 = high half of the size; SetSize passes
\* words 1, 2 as the size and writes only word 1 = 0; Directory Read passes
\* word 1 as the count and leaves word 1 = 0, word 2 = the entries produced.
C12_ReplyLayout ==
    [][(/\ last'.op = "SendSyncRequest"
        /\ IsLive(g_object_pool, last'.h)
        /\ Succeeded(last'.res))
        => ReplyLayout(g_object_pool[last'.h].type, last'.h, cmd_buff, cmd_buff',
                       last'.calls)]_vars

\* C12 witness: a Read with offset high word 1 and low word 0 returned 3.
C12_Witness ==
    /\ last.op = "SendSyncRequest"
    /\ Succeeded(last.res)
    /\ Len(last.calls) = 1
    /\ last.calls[1].fn = "Read"
    /\ last.calls[1].off = <<0, 0, 1, 0>>
    /\ last.calls[1].len = U32(4, 0)
    /\ cmd_buff[1] = Zero32
    /\ cmd_buff[2] = U32(3, 0)

\* C13: a 64-bit size S encoded by GetSize as two words (low first) and
\* decoded by the SetSize rule low | (high << 32) gives S again; the high
\* word sent back is the upper half of S.
C13_SizeRoundTrip ==
    last.op = "SizeRoundTrip"
        => /\ Len(last.calls) = 2
           /\ last.calls[1].fn = "GetSize"
           /\ last.calls[2].fn = "SetSize"
           /\ last.calls[2].off = last.calls[1].ret.size
           /\ cmd_buff[2] = <<last.calls[1].ret.size[3], last.calls[1].ret.size[4]>>

\* C13 witness: the size 2^64 - 1 made the round trip through a File.
C13_Witness ==
    /\ last.op = "SizeRoundTrip"
    /\ g_object_pool[last.h].type = "File"
    /\ last.calls[1].ret.size = U64(Limb - 1, Limb - 1, Limb - 1, Limb - 1)
    /\ last.calls[2].off = U64(Limb - 1, Limb - 1, Limb - 1, Limb - 1)

\* the backend function a path operation invokes
BackendFn(op) ==
    CASE op = "RenameFileBetweenArchives" -> "RenameFile"
      [] op = "RenameDirectoryBetweenArchives" -> "RenameDirectory"
      [] op = "DeleteFileFromArchive" -> "DeleteFile"
      [] op = "DeleteDirectoryFromArchive" -> "DeleteDirectory"
      [] op = "CreateDirectoryFromArchive" -> "CreateDirectory"
      [] OTHER -> "None"

\* C14: a rename given two live Archive handles: equal handles make one
\* backend rename on that archive and give success if it returned true, NoData
\* with summary NothingHappened if false; different handles give
\* UnimplementedFunction (module FS) and no backend call at all.
C14_RenameBetweenArchives ==
    (/\ last.op \in RenameOps
     /\ LiveArchive(g_object_pool, last.h)
     /\ LiveArchive(g_object_pool, last.h2))
        => IF last.h = last.h2
           THEN /\ Len(last.calls) = 1
                /\ last.calls[1].fn = BackendFn(last.op)
                /\ last.calls[1].h = last.h
                /\ last.res = IF last.calls[1].ok
                              THEN MakeError(RESULT_SUCCESS)
                              ELSE MakeError(NoDataNothingHappened)
           ELSE /\ last.calls = NoCall
                /\ last.res = MakeError(UnimplementedFunction("FS"))

\* C14 witness: a file rename between two different live archives was refused.
C14_Witness ==
    /\ last.op = "RenameFileBetweenArchives"
    /\ LiveArchive(g_object_pool, last.h)
    /\ LiveArchive(g_object_pool, last.h2)
    /\ last.h # last.h2
    /\ last.res = MakeError(UnimplementedFunction("FS"))

PathOps == {"DeleteFileFromArchive", "DeleteDirectoryFromArchive",
            "CreateDirectoryFromArchive"}

\* C15: delete-file, delete-directory and create-directory on a live Archive
\* handle make the matching backend call exactly once and return
\* RESULT_SUCCESS exactly when it returned true; otherwise the result is NoData
\* with summary Canceled, module FS.
C15_PathOperationResult ==
    (last.op \in PathOps /\ LiveArchive(g_object_pool, last.h))
        => /\ Len(last.calls) = 1
           /\ last.calls[1].fn = BackendFn(last.op)
           /\ last.calls[1].h = last.h
           /\ (last.res = MakeError(RESULT_SUCCESS)) <=> last.calls[1].ok
           /\ ~last.calls[1].ok => last.res = MakeError(NoDataCanceled)
           /\ ~IsCode(last.res, "NotFound")
           /\ last.res.code.summary # "NothingHappened"

\* C15 witness: a delete-file on a live archive failed in the backend and was
\* reported as NoData / Canceled.
C15_Witness ==
    /\ last.op = "DeleteFileFromArchive"
    /\ LiveArchive(g_object_pool, last.h)
    /\ Len(last.calls) = 1
    /\ ~last.calls[1].ok
    /\ last.res = MakeError(NoDataCanceled)

\* C16: ArchiveShutdown empties the registry and destroys no pool object:
\* right after it OpenArchive gives NotFound and CloseArchive gives
\* InvalidHandle for every id_code, and an empty registry stays empty until a
\* mount (MountArchive, CreateArchive, or the one ArchiveInit makes).
C16_ShutdownClearsRegistry ==
    [][/\ last'.op = "ArchiveShutdown"
            => /\ g_archive_map' = EmptyMap
               /\ g_object_pool' = g_object_pool
               /\ \A id \in IdCodes :
                    /\ OpenArchive(g_archive_map', id) = MakeError(NotFoundFS)
                    /\ CloseArchive(g_archive_map', id).code = InvalidHandle("FS")
       /\ (g_archive_map = EmptyMap /\ last'.op \notin MountOps \cup {"ArchiveInit"})
            => g_archive_map' = EmptyMap]_vars

\* C16 witness: a shutdown emptied the registry while an Archive object that
\* had been mounted is still live in the pool.
C16_Witness ==
    /\ last.op = "ArchiveShutdown"
    /\ g_archive_map = EmptyMap
    /\ \E h \in Handles : LiveArchive(g_object_pool, h)

\* C17: after ArchiveInit the registry holds exactly the built-in archives
\* whose backend initialised: when Initialize() succeeded the only entry is
\* SDMC, mapped to an Archive object created by this call; when it failed the
\* registry is empty and OpenArchive("SDMC") gives NotFound.
C17_InitRebuildsRegistry ==
    [][last'.op = "ArchiveInit"
        => IF last'.res.val = 1
           THEN /\ DOMAIN g_archive_map' = {"SDMC"}
                /\ ~IsLive(g_object_pool, g_archive_map'["SDMC"])
                /\ LiveArchive(g_object_pool', g_archive_map'["SDMC"])
                /\ g_object_pool'[g_archive_map'["SDMC"]].id_code = "SDMC"
           ELSE /\ g_archive_map' = EmptyMap
                /\ g_object_pool' = g_object_pool
                /\ OpenArchive(g_archive_map', "SDMC") = MakeError(NotFoundFS)]_vars

\* C17 witness: an ArchiveInit whose backend initialised left SDMC as the only
\* entry while an older RomFS archive object, no longer registered, is live.
C17_Witness ==
    /\ last.op = "ArchiveInit"
    /\ last.res.val = 1
    /\ DOMAIN g_archive_map = {"SDMC"}
    /\ \E h \in Handles : /\ LiveArchive(g_object_pool, h)
                          /\ g_object_pool[h].id_code = "RomFS"

\* C18: the Close command dispatched to a live Archive reports what the
\* registry close produced: with no registry entry for the archive's id_code
\* the request returns InvalidHandle (module FS) and word 1 is left as it was;
\* with an entry it returns success and word 1 is 0.
C18_ArchiveCloseReportsOutcome ==
    [][(/\ last'.op = "SendSyncRequest"
        /\ LiveArchive(g_object_pool, last'.h)
        /\ cmd_buff[0] = FileCommand_Close)
        => LET closed == CloseArchive(g_archive_map, g_object_pool[last'.h].id_code)
           IN  IF IsError(closed.code)
               THEN /\ last'.res = MakeError(closed.code)
                    /\ cmd_buff'[1] = cmd_buff[1]
               ELSE /\ Succeeded(last'.res)
                    /\ cmd_buff'[1] = Zero32]_vars

\* C20: OpenFileFromArchive with a Binary path returns success carrying the
\* archive_handle argument itself, creates no object in the pool and makes no
\* backend call, so every Binary open on one archive returns the same handle.
C20_BinaryOpenReturnsArchive ==
    [][(last'.op = "OpenFileFromArchive" /\ last'.path = "Binary")
        => /\ last'.res = MakeResult(last'.h)
           /\ g_object_pool' = g_object_pool
           /\ g_archive_map' = g_archive_map
           /\ last'.calls = NoCall]_vars

\* C20 witness: a Binary open on a live archive returned that archive's handle
\* while the pool still has room for a File object.
C20_Witness ==
    /\ last.op = "OpenFileFromArchive"
    /\ last.path = "Binary"
    /\ LiveArchive(g_object_pool, last.h)
    /\ last.res = MakeResult(last.h)
    /\ HasFree(g_object_pool)

DataCommands ==
    {FileCommand_Read, FileCommand_Write, FileCommand_GetSize, FileCommand_SetSize,
     DirectoryCommand_Read}
RegistryOps == MountOps \cup {"CloseArchive", "ArchiveInit", "ArchiveShutdown"}
PoolOps == OpenOps \cup {"CreateArchive", "ArchiveInit"}

\* C19: an operation that is not a mount, a close, Init or Shutdown leaves the
\* registry as it was; an operation that is not an open, CreateArchive, Init
\* or a File/Directory Close leaves the set of live handles as it was.  In
\* particular OpenArchive, the delete/create/rename path operations and the
\* Read/Write/GetSize/SetSize dispatches change neither, whatever they return.
C19_FrameOfOperations ==
    [][/\ last'.op \notin RegistryOps => g_archive_map' = g_archive_map
       /\ (/\ last'.op \notin PoolOps
           /\ ~(/\ last'.op = "SendSyncRequest"
                /\ ClosesObject(g_object_pool, cmd_buff, last'.h)))
            => LiveHandles(g_object_pool') = LiveHandles(g_object_pool)
       /\ (\/ last'.op \in {"OpenArchive"} \cup PathOps \cup RenameOps
           \/ last'.op = "SendSyncRequest" /\ cmd_buff[0] \in DataCommands)
            => /\ g_archive_map' = g_archive_map
               /\ LiveHandles(g_object_pool') = LiveHandles(g_object_pool)]_vars

\* C19 witness: a Read dispatched to a live File returned with the registry
\* populated and other objects live.
C19_Witness ==
    /\ last.op = "SendSyncRequest"
    /\ cmd_buff[0] = FileCommand_Read
    /\ IsLive(g_object_pool, last.h)
    /\ g_object_pool[last.h].type = "File"
    /\ Len(last.calls) = 1
    /\ g_archive_map # EmptyMap

\* C21: in every reachable state each handle stored in the registry is a live
\* Archive object of the pool whose backend id_code is the key it is stored
\* under, and no two keys hold the same handle.
C21_RegistryWellFormed ==
    /\ \A id \in DOMAIN g_archive_map :
          /\ LiveArchive(g_object_pool, g_archive_map[id])
          /\ g_object_pool[g_archive_map[id]].id_code = id
    /\ \A id1 \in DOMAIN g_archive_map, id2 \in DOMAIN g_archive_map :
          g_archive_map[id1] = g_archive_map[id2] => id1 = id2

\* C21 witness: both id_codes are mounted, on two different Archive objects,
\* after a Close command was dispatched to one of them.
C21_Witness ==
    /\ DOMAIN g_archive_map = IdCodes
    /\ g_archive_map["SDMC"] # g_archive_map["RomFS"]
    /\ last.op = "SendSyncRequest"
    /\ LiveArchive(g_object_pool, last.h)
    /\ cmd_buff[0] = FileCommand_Close
    /\ Succeeded(last.res)

====
